---- MODULE Spec2Model ----
(***************************************************************************)
(* A model of zhuweiyou/memoryscanner: the AOB pattern compiler and        *)
(* matcher (pattern.go) and the region walk of Scanner.Scan.               *)
(*                                                                         *)
(* Text (Go strings) and byte slices are sequences of byte values 0..255.  *)
(* Go indexes from 0 and TLA+ sequences from 1: offsets reported by the    *)
(* matcher are the Go (0-based) offsets.                                   *)
(***************************************************************************)
EXTENDS Integers, Sequences, FiniteSets, TLC

VARIABLES
    \* ---- the pattern pipeline (pattern.go), one call after the other
    pstage,       \* "idle" | "start" | "compiled" | "parsed" | "matched"
    origin,       \* "none" | "string" (pattern came from StringToPattern) | "text" | "zero"
    searchStr,    \* StringToPattern's searchStr
    minLength,    \* StringToPattern's minLength
    pattern,      \* the AOB pattern text
    pm,           \* the result of NewPatternMatcher(pattern)
    data,         \* FindMatches' data
    ignoreCase,   \* FindMatches' ignoreCase
    found,        \* the result of FindMatches
    \* ---- a Scanner and its Scan (the caller, the scan loop, the target process)
    pc,            \* "idle" | "new" | "nohandle" | "ready" | "loop" | "query" |
                   \* "region" | "dispatch" | "handler" | "returned"
    processHandle, \* Scanner.processHandle: 0 or the handle OpenProcess gave
    closeCalls,    \* how often windows.CloseHandle was called on that handle
    ctxDone,       \* ctx.Done() is closed
    opts,          \* the ScanOptions of the running Scan (Handler apart)
    patternMatcher,\* Scan's patternMatcher
    address,       \* Scan's cursor
    mbi,           \* the descriptor VirtualQueryEx wrote, until the region is dealt with
    baseAddr,      \* Scan's baseAddr
    regionSize,    \* Scan's regionSize
    buffer,        \* scanRegion's buffer, trimmed to the bytes read
    matches,       \* the offsets of scanRegion's loop not yet visited
    result,        \* what Scan returned: "none" | "nil" | "invalid pattern" |
                   \* "context canceled"
    delivered,     \* the Matches the handler was called with, in order
    lastRead,      \* the ReadProcessMemory call for the region at hand: what the
                   \* region held and what came back
    allFull,       \* every ReadProcessMemory call of this Scan transferred all it was asked for
    nQuery,        \* VirtualQueryEx calls of this Scan
    stop,          \* the first handler call that returned false: its number k (0 if
                   \* none) and the VirtualQueryEx calls made by then
    queryFailed,   \* a VirtualQueryEx call of this Scan failed
    cancelAt,      \* when ctx.Done() was closed: the VirtualQueryEx calls and the
                   \* handler calls made by then
    walk           \* the descriptors VirtualQueryEx wrote in this Scan: whether each
                   \* covered the address queried and overlapped none before it, and
                   \* the addresses they cover

pvars == <<pstage, origin, searchStr, minLength, pattern, pm, data, ignoreCase, found>>

svars == <<pc, processHandle, closeCalls, ctxDone, opts, patternMatcher, address, mbi,
           baseAddr, regionSize, buffer, matches, result, delivered, lastRead, allFull,
           nQuery, stop, queryFailed, cancelAt, walk>>

vars == <<pvars, svars>>

----------------------------------------------------------------------------
(* Bounds of the model *)

MaxStrLen == 2      \* longest search string drawn from StrBytes
MaxMinLength == 3   \* largest minLength
MaxTextLen == 5     \* longest hand-written pattern text drawn from TextChars
MaxDataLen == 3     \* longest buffer drawn from DataBytes
TopPage == 3        \* pages of the address space
MaxQueries == 3     \* VirtualQueryEx calls of one Scan

----------------------------------------------------------------------------
(* Bytes and text *)

Byte == 0..255

\* All sequences over S of length at most n
RECURSIVE SeqsUpTo(_, _)
SeqsUpTo(S, n) ==
    IF n = 0 THEN {<<>>}
    ELSE LET shorter == SeqsUpTo(S, n - 1)
         IN  shorter \cup {Append(s, x) : s \in {t \in shorter : Len(t) = n - 1}, x \in S}

\* The digits fmt's %X verb writes: "0123456789ABCDEF"
UpperHexDigits == <<48, 49, 50, 51, 52, 53, 54, 55, 56, 57, 65, 66, 67, 68, 69, 70>>

\* A plausible slip: "%X" without the width, so bytes below 0x10 give one digit
FormatHexNoPad(b) ==
    IF b < 16 THEN <<UpperHexDigits[b + 1]>>
    ELSE <<UpperHexDigits[(b \div 16) + 1], UpperHexDigits[(b % 16) + 1]>>

\* fmt.Sprintf("%02X", b)
FormatHex02X(b) ==
    <<UpperHexDigits[(b \div 16) + 1], UpperHexDigits[(b % 16) + 1]>>

\* The token written for position i (0-based) of the pattern
PatternToken(bytes, i) ==
    IF i < Len(bytes)
    THEN IF bytes[i + 1] = 63 THEN <<63, 63>> ELSE FormatHex02X(bytes[i + 1])
    ELSE <<63, 63>>

\* The loop of StringToPattern from position i on
RECURSIVE BuildPattern(_, _, _)
BuildPattern(bytes, patternLength, i) ==
    IF i >= patternLength THEN <<>>
    ELSE (IF i > 0 THEN <<32>> ELSE <<>>)
         \o PatternToken(bytes, i)
         \o BuildPattern(bytes, patternLength, i + 1)

\* A plausible slip: minLength taken as the length, truncating a longer input
StringToPatternTruncating(s, n) ==
    IF s = <<>> THEN <<>>
    ELSE BuildPattern(s, IF n > 0 THEN n ELSE Len(s), 0)

\* A plausible slip: no early return, so the empty input is padded
StringToPatternPadsEmpty(s, n) ==
    BuildPattern(s, IF n > Len(s) THEN n ELSE Len(s), 0)

StringToPattern(s, n) ==
    IF s = <<>> THEN <<>>
    ELSE BuildPattern(s, IF n > Len(s) THEN n ELSE Len(s), 0)

----------------------------------------------------------------------------
(* NewPatternMatcher *)

\* strings.Fields' white space among the bytes below 0x80
IsSpace(c) == c \in {9, 10, 11, 12, 13, 32}

\* strings.Fields: the maximal runs of non-space bytes, in order
RECURSIVE FieldsFrom(_, _, _)
FieldsFrom(s, i, cur) ==
    IF i > Len(s) THEN (IF cur = <<>> THEN <<>> ELSE <<cur>>)
    ELSE IF IsSpace(s[i])
         THEN (IF cur = <<>> THEN <<>> ELSE <<cur>>) \o FieldsFrom(s, i + 1, <<>>)
         ELSE FieldsFrom(s, i + 1, Append(cur, s[i]))

Fields(s) == FieldsFrom(s, 1, <<>>)

\* A hex digit reader that knows the lower-case letters only
FromHexCharLowerOnly(c) ==
    IF 48 <= c /\ c <= 57 THEN c - 48
    ELSE IF 97 <= c /\ c <= 102 THEN c - 97 + 10
    ELSE 255

\* encoding/hex's reverseHexTable: the digit's value, 255 for any other byte
FromHexChar(c) ==
    IF 48 <= c /\ c <= 57 THEN c - 48
    ELSE IF 97 <= c /\ c <= 102 THEN c - 97 + 10
    ELSE IF 65 <= c /\ c <= 70 THEN c - 65 + 10
    ELSE 255

\* hex.Decode's loop over the pairs src[j-1], src[j] (j 0-based, odd)
RECURSIVE HexDecodePairs(_, _, _)
HexDecodePairs(src, j, acc) ==
    IF j >= Len(src) THEN [err |-> FALSE, bytes |-> acc, j |-> j]
    ELSE LET a == FromHexChar(src[j])
             b == FromHexChar(src[j + 1])
         IN  IF a > 15 \/ b > 15 THEN [err |-> TRUE, bytes |-> acc, j |-> j]
             ELSE HexDecodePairs(src, j + 2, Append(acc, a * 16 + b))

\* hex.DecodeString: the decoded bytes, and whether it returned an error
HexDecodeString(s) ==
    LET r == HexDecodePairs(s, 1, <<>>)
    IN  IF r.err THEN [err |-> TRUE, bytes |-> r.bytes]
        ELSE IF Len(s) % 2 = 1 THEN [err |-> TRUE, bytes |-> r.bytes]
        ELSE [err |-> FALSE, bytes |-> r.bytes]

Wildcard == <<63, 63>>

NoMatcher(e) ==
    [err |-> e, patternBytes |-> <<>>, wildcardMask |-> <<>>, patternLength |-> 0]

\* Whether the loop of NewPatternMatcher returns an error at this part
BadPart(part) ==
    /\ part # Wildcard
    /\ LET d == HexDecodeString(part) IN d.err \/ Len(d.bytes) # 1

\* A plausible slip: only the decoder's error is looked at, not the decoded length
NewPatternMatcherNoLenCheck(p) ==
    LET parts == Fields(p)
        Bad(part) == part # Wildcard /\ HexDecodeString(part).err
        First(part) == LET d == HexDecodeString(part).bytes
                       IN  IF d = <<>> THEN 0 ELSE d[1]
    IN  IF Len(parts) = 0 THEN NoMatcher("empty pattern")
        ELSE IF \E i \in 1..Len(parts) : Bad(parts[i])
        THEN NoMatcher("invalid hex pattern")
        ELSE [err |-> "nil",
              patternBytes |-> [i \in 1..Len(parts) |->
                                  IF parts[i] = Wildcard THEN 0 ELSE First(parts[i])],
              wildcardMask |-> [i \in 1..Len(parts) |-> parts[i] = Wildcard],
              patternLength |-> Len(parts)]

\* NewPatternMatcher: err is "nil" and the matcher's fields are set, or err is
\* the error and there is no matcher
NewPatternMatcher(p) ==
    LET parts == Fields(p)
    IN  IF Len(parts) = 0 THEN NoMatcher("empty pattern")
        ELSE IF \E i \in 1..Len(parts) : BadPart(parts[i])
        THEN NoMatcher("invalid hex pattern")
        ELSE [err |-> "nil",
              patternBytes |-> [i \in 1..Len(parts) |->
                                  IF parts[i] = Wildcard THEN 0
                                  ELSE HexDecodeString(parts[i]).bytes[1]],
              wildcardMask |-> [i \in 1..Len(parts) |-> parts[i] = Wildcard],
              patternLength |-> Len(parts)]

----------------------------------------------------------------------------
(* FindMatches *)

\* A plausible slip: folding by clearing bit 0x20 of every byte
FoldByMask(b) == IF (b \div 32) % 2 = 1 THEN b - 32 ELSE b

\* The upper-casing of matchesAt: 'a'..'z' lose 'a' - 'A', other bytes stay
ToUpperASCII(b) == IF 97 <= b /\ b <= 122 THEN b - 32 ELSE b

\* matchesAt: pos is the 0-based offset into d
matchesAt(m, d, pos, ic) ==
    \A j \in 0..(m.patternLength - 1) :
        \/ m.wildcardMask[j + 1]
        \/ LET dataByte == d[pos + j + 1]
               patternByte == m.patternBytes[j + 1]
           IN  IF ic THEN ToUpperASCII(dataByte) = ToUpperASCII(patternByte)
               ELSE dataByte = patternByte

\* The loop of FindMatches from offset i on
RECURSIVE FindFrom(_, _, _, _, _)
FindFrom(m, d, ic, i, last) ==
    IF i > last THEN <<>>
    ELSE (IF matchesAt(m, d, i, ic) THEN <<i>> ELSE <<>>)
         \o FindFrom(m, d, ic, i + 1, last)

\* A plausible slip: the loop stops one offset early (i < dataLen - patternLength)
FindMatchesOffByOne(m, d, ic) ==
    IF m.patternLength = 0 \/ m.patternLength > Len(d) THEN <<>>
    ELSE FindFrom(m, d, ic, 0, Len(d) - m.patternLength - 1)

FindMatches(m, d, ic) ==
    IF m.patternLength = 0 \/ m.patternLength > Len(d) THEN <<>>
    ELSE FindFrom(m, d, ic, 0, Len(d) - m.patternLength)

GetPatternLength(m) == m.patternLength

----------------------------------------------------------------------------
(* The target process as the operating system shows it *)

\* The address space is 2^64 addresses in the program; the model keeps the
\* arithmetic modulo AddrMod, a space of TopPage pages
PageOffsets == {0, 1}
PageSize == Cardinality(PageOffsets)
AddrMod == TopPage * PageSize
Addresses == 0..(AddrMod - 1)

PageBase(a) == a - (a % PageSize)

\* MEMORY_BASIC_INFORMATION.State and .Protect (the set of its flags) of the
\* regions the target may hold: committed pages of every protection, with and
\* without the guard modifier, and reserved and free ranges
RegionKinds ==
    { <<"MEM_COMMIT", {"PAGE_NOACCESS"}>>,
      <<"MEM_COMMIT", {"PAGE_READONLY"}>>,
      <<"MEM_COMMIT", {"PAGE_READWRITE"}>>,
      <<"MEM_COMMIT", {"PAGE_WRITECOPY"}>>,
      <<"MEM_COMMIT", {"PAGE_EXECUTE"}>>,
      <<"MEM_COMMIT", {"PAGE_EXECUTE_READ"}>>,
      <<"MEM_COMMIT", {"PAGE_EXECUTE_READWRITE"}>>,
      <<"MEM_COMMIT", {"PAGE_READWRITE", "PAGE_GUARD"}>>,
      <<"MEM_RESERVE", {}>>,
      <<"MEM_RESERVE", {"PAGE_READWRITE"}>>,
      <<"MEM_FREE", {"PAGE_NOACCESS"}>> }

ZeroMbi == [BaseAddress |-> 0, RegionSize |-> 0, State |-> "0", Protect |-> {}]

\* Pages of a region: one, or none for a degenerate descriptor
RegionPages == {0, 1}

\* What a successful VirtualQueryEx may write for the address a: the region
\* starts at a's page, lies inside the address space, and has any of the
\* sizes, states and protections above
Descriptors(a) ==
    { [BaseAddress |-> PageBase(a), RegionSize |-> n * PageSize,
       State |-> kind[1], Protect |-> kind[2]] :
        n \in {k \in RegionPages : PageBase(a) + k * PageSize <= AddrMod},
        kind \in RegionKinds }

\* Bytes of the target's memory: 'A' and 'a'
MemBytes == {65, 97}

RECURSIVE SeqsOfLen(_, _)
SeqsOfLen(S, n) ==
    IF n = 0 THEN {<<>>} ELSE {Append(s, x) : s \in SeqsOfLen(S, n - 1), x \in S}

\* The buffer as make([]byte, readLength) left it, zero beyond the n bytes
\* transferred
ZeroFilledBuffer(bytes, n, readLength) ==
    [i \in 1..readLength |-> IF i <= n THEN bytes[i] ELSE 0]

\* No ReadProcessMemory call yet for the region at hand
NoRead == [base |-> 0, length |-> 0, n |-> 0, failed |-> FALSE, bytes |-> <<>>]

\* "Trim buffer to actual bytes read"
TrimBuffer(bytes, n, readLength) == SubSeq(bytes, 1, n)

\* What a region may hold when n of its bytes are transferred: a read that
\* transfers all it was asked for fixes the whole region, a shorter one the
\* bytes transferred
RegionBytes(size, readLength, n, failed) ==
    IF failed \/ n = 0 THEN {<<>>}
    ELSE IF n = readLength THEN SeqsOfLen(MemBytes, size)
    ELSE SeqsOfLen(MemBytes, n)

----------------------------------------------------------------------------
(* Scanner *)

ScanLocalsInit ==
    /\ opts = [Pattern |-> <<>>, IgnoreCase |-> FALSE, MinAddress |-> 0, MaxAddress |-> 0]
    /\ patternMatcher = NoMatcher("none")
    /\ address = 0
    /\ mbi = ZeroMbi
    /\ baseAddr = 0
    /\ regionSize = 0
    /\ buffer = <<>>
    /\ matches = <<>>
    /\ result = "none"
    /\ delivered = <<>>
    /\ lastRead = NoRead
    /\ allFull = TRUE
    /\ nQuery = 0
    /\ stop = [k |-> 0, nQuery |-> 0]
    /\ queryFailed = FALSE

ScanIdle ==
    /\ pc = "idle"
    /\ processHandle = 0
    /\ closeCalls = 0
    /\ ctxDone = FALSE
    /\ cancelAt = [nQuery |-> 0, k |-> 0]
    /\ walk = [regular |-> TRUE, covered |-> {}]
    /\ ScanLocalsInit

\* The ScanOptions a caller passes. Patterns: "41", "41 ??", "" and "4G"
ScanPatterns == { <<52, 49>>, <<52, 49, 32, 63, 63>>, <<>>, <<52, 71>> }

MinAddresses == {0, 1, PageSize}
MaxAddresses == {PageSize + 1, AddrMod - 1}

\* IgnoreCase is set, as scanProcess sets it, for scans of the whole address
\* space from 0
ScanOptions ==
    { o \in [Pattern : ScanPatterns, IgnoreCase : BOOLEAN,
             MinAddress : MinAddresses, MaxAddress : MaxAddresses] :
        o.IgnoreCase => (o.MinAddress = 0 /\ o.MaxAddress = AddrMod - 1) }

\* isReadableRegion
isReadableRegion(m) ==
    LET isReadable == m.Protect \cap {"PAGE_READONLY", "PAGE_READWRITE",
                                      "PAGE_EXECUTE_READ", "PAGE_EXECUTE_READWRITE"} # {}
        isCommitted == m.State = "MEM_COMMIT"
    IN  isReadable /\ isCommitted

\* scanRegion's read bounds: readEnd
ReadEnd(base, size, maxAddress) ==
    LET readEnd == (base + size) % AddrMod
    IN  IF readEnd > maxAddress THEN maxAddress ELSE readEnd

\* "Move to next region"
NextAddress(base, size) ==
    LET next == (base + size) % AddrMod
    IN  IF size = 0 THEN (next + 1) % AddrMod ELSE next

\* A Match that carries the offset in the buffer for an address
MakeMatchLocalOffset(base, offset, buf, m) ==
    [Address |-> offset,
     Data |-> SubSeq(buf, offset + 1, offset + GetPatternLength(m))]

\* The Match scanRegion builds for an offset of the buffer
MakeMatch(base, offset, buf, m) ==
    [Address |-> (base + offset) % AddrMod,
     Data |-> SubSeq(buf, offset + 1, offset + GetPatternLength(m))]

InitScan ==
    /\ pstage = "idle"
    /\ origin = "none"
    /\ searchStr = <<>>
    /\ minLength = 0
    /\ pattern = <<>>
    /\ pm = NoMatcher("none")
    /\ data = <<>>
    /\ ignoreCase = FALSE
    /\ found = <<>>
    /\ pc = "new"
    /\ processHandle = 0
    /\ closeCalls = 0
    /\ ctxDone = FALSE
    /\ cancelAt = [nQuery |-> 0, k |-> 0]
    /\ walk = [regular |-> TRUE, covered |-> {}]
    /\ ScanLocalsInit

scanLocals == <<opts, patternMatcher, address, mbi, baseAddr, regionSize, buffer, matches,
                result, delivered, lastRead, allFull, nQuery, stop, queryFailed>>

\* NewScanner: OpenProcess gives a handle, or fails and there is no Scanner
NewScanner ==
    /\ pc = "new"
    /\ \/ /\ processHandle' = 1
          /\ pc' = "ready"
       \/ /\ processHandle' = 0
          /\ pc' = "nohandle"
    /\ UNCHANGED <<closeCalls, ctxDone, scanLocals, cancelAt, walk, pvars>>

\* A Close that calls CloseHandle whatever the handle is
CloseUnguarded ==
    /\ pc \in {"ready", "returned"}
    /\ closeCalls' = closeCalls + 1
    /\ processHandle' = 0
    /\ UNCHANGED <<pc, ctxDone, scanLocals, cancelAt, walk, pvars>>

\* Scanner.Close, before or after Scan
Close ==
    /\ pc \in {"ready", "returned"}
    /\ IF processHandle # 0
       THEN /\ closeCalls' = closeCalls + 1
            /\ processHandle' = 0
       ELSE UNCHANGED <<closeCalls, processHandle>>
    /\ UNCHANGED <<pc, ctxDone, scanLocals, cancelAt, walk, pvars>>

\* The cancellation source closes ctx.Done() while Scan runs
Cancel ==
    /\ pc \in {"loop", "query", "region", "dispatch", "handler"}
    /\ ~ctxDone
    /\ ctxDone' = TRUE
    /\ cancelAt' = [nQuery |-> nQuery, k |-> Len(delivered)]
    /\ UNCHANGED <<pc, processHandle, closeCalls, scanLocals, walk, pvars>>

\* A Scan that looks at the context before it compiles the pattern
ScanEnterChecksCtxFirst ==
    /\ pc = "ready"
    /\ \E o \in ScanOptions, done \in BOOLEAN :
        LET m == NewPatternMatcher(o.Pattern)
        IN  /\ opts' = o
            /\ ctxDone' = done
            /\ patternMatcher' = m
            /\ IF done
               THEN /\ result' = "context canceled"
                    /\ pc' = "returned"
                    /\ address' = 0
               ELSE IF m.err # "nil"
               THEN /\ result' = "invalid pattern"
                    /\ pc' = "returned"
                    /\ address' = 0
               ELSE /\ result' = "none"
                    /\ pc' = "loop"
                    /\ address' = o.MinAddress
    /\ UNCHANGED <<processHandle, closeCalls, mbi, baseAddr, regionSize, buffer, matches,
                   delivered, lastRead, allFull, nQuery, stop, queryFailed, cancelAt, walk, pvars>>

\* Scan is called with a context, cancelled already or not, and options: the
\* pattern is compiled before anything else
ScanEnter ==
    /\ pc = "ready"
    /\ \E o \in ScanOptions, done \in BOOLEAN :
        LET m == NewPatternMatcher(o.Pattern)
        IN  /\ opts' = o
            /\ ctxDone' = done
            /\ patternMatcher' = m
            /\ IF m.err # "nil"
               THEN /\ result' = "invalid pattern"
                    /\ pc' = "returned"
                    /\ address' = 0
               ELSE /\ result' = "none"
                    /\ pc' = "loop"
                    /\ address' = o.MinAddress
    /\ UNCHANGED <<processHandle, closeCalls, mbi, baseAddr, regionSize, buffer, matches,
                   delivered, lastRead, allFull, nQuery, stop, queryFailed, cancelAt, walk, pvars>>

\* A loop head without the checkpoint
LoopCheckNoCheckpoint ==
    /\ pc = "loop"
    /\ IF ~(address < opts.MaxAddress)
       THEN pc' = "returned" /\ result' = "nil"
       ELSE pc' = "query" /\ UNCHANGED result
    /\ UNCHANGED <<processHandle, closeCalls, ctxDone, opts, patternMatcher, address, mbi,
                   baseAddr, regionSize, buffer, matches, delivered, lastRead, allFull,
                   nQuery, stop, queryFailed, cancelAt, walk, pvars>>

\* The head of the loop: "for address < maxAddress", then the first checkpoint
LoopCheck ==
    /\ pc = "loop"
    /\ IF ~(address < opts.MaxAddress)
       THEN pc' = "returned" /\ result' = "nil"
       ELSE IF ctxDone
       THEN pc' = "returned" /\ result' = "context canceled"
       ELSE pc' = "query" /\ UNCHANGED result
    /\ UNCHANGED <<processHandle, closeCalls, ctxDone, opts, patternMatcher, address, mbi,
                   baseAddr, regionSize, buffer, matches, delivered, lastRead, allFull,
                   nQuery, stop, queryFailed, cancelAt, walk, pvars>>

\* The walk so far with the descriptor d written for the address a: d is in
\* order when it covers a and overlaps no descriptor before it
WalkAfter(w, a, d) ==
    LET range == d.BaseAddress .. (d.BaseAddress + d.RegionSize - 1)
        inOrder == /\ w.regular
                   /\ a \in range
                   /\ range \cap w.covered = {}
    IN  [regular |-> inOrder,
         covered |-> IF inOrder THEN w.covered \cup range ELSE {}]

\* A Scan that returns the error of VirtualQueryEx
QueryRegionSurfacesError ==
    /\ pc = "query"
    /\ nQuery < MaxQueries
    /\ nQuery' = nQuery + 1
    /\ \/ /\ queryFailed' = TRUE
          /\ pc' = "returned"
          /\ result' = "query failed"
          /\ UNCHANGED <<mbi, baseAddr, regionSize, walk>>
       \/ /\ processHandle # 0
          /\ \E d \in Descriptors(address) :
                /\ mbi' = d
                /\ baseAddr' = d.BaseAddress
                /\ regionSize' = d.RegionSize
                /\ walk' = WalkAfter(walk, address, d)
          /\ pc' = "region"
          /\ UNCHANGED <<queryFailed, result>>
    /\ lastRead' = NoRead
    /\ UNCHANGED <<processHandle, closeCalls, ctxDone, opts, patternMatcher, address,
                   buffer, matches, delivered, allFull, stop, cancelAt, pvars>>

\* VirtualQueryEx: it fails (always so on a closed handle) and Scan breaks out of
\* the loop and returns nil, or it writes a descriptor
QueryRegion ==
    /\ pc = "query"
    /\ nQuery < MaxQueries
    /\ nQuery' = nQuery + 1
    /\ \/ /\ queryFailed' = TRUE
          /\ pc' = "returned"
          /\ result' = "nil"
          /\ UNCHANGED <<mbi, baseAddr, regionSize, walk>>
       \/ /\ processHandle # 0
          /\ \E d \in Descriptors(address) :
                /\ mbi' = d
                /\ baseAddr' = d.BaseAddress
                /\ regionSize' = d.RegionSize
                /\ walk' = WalkAfter(walk, address, d)
          /\ pc' = "region"
          /\ UNCHANGED <<queryFailed, result>>
    /\ lastRead' = NoRead
    /\ UNCHANGED <<processHandle, closeCalls, ctxDone, opts, patternMatcher, address,
                   buffer, matches, delivered, allFull, stop, cancelAt, pvars>>

\* The region is left: "Move to next region". The descriptor is not looked at
\* again before VirtualQueryEx overwrites it
LeaveRegion ==
    /\ address' = NextAddress(baseAddr, regionSize)
    /\ mbi' = ZeroMbi
    /\ buffer' = <<>>
    /\ matches' = <<>>
    /\ pc' = "loop"

\* The region is not readable, or nothing of it lies below maxAddress: it is
\* not read
SkipRegion ==
    /\ pc = "region"
    /\ \/ ~isReadableRegion(mbi)
       \/ ReadEnd(baseAddr, regionSize, opts.MaxAddress) <= baseAddr
    /\ LeaveRegion
    /\ UNCHANGED <<processHandle, closeCalls, ctxDone, opts, patternMatcher, baseAddr,
                   regionSize, result, delivered, lastRead, allFull, nQuery, stop,
                   queryFailed, cancelAt, walk, pvars>>

\* A scanRegion that hands a failed or empty read to Scan as an error
ReadRegionFailStops ==
    /\ pc = "region"
    /\ isReadableRegion(mbi)
    /\ LET readEnd == ReadEnd(baseAddr, regionSize, opts.MaxAddress)
           readLength == readEnd - baseAddr
       IN  /\ readEnd > baseAddr
           /\ \E outcome \in {<<TRUE, 0>>} \cup {<<FALSE, k>> : k \in 0..readLength} :
               LET failed == outcome[1]
                   n == outcome[2]
               IN  \E bytes \in RegionBytes(regionSize, readLength, n, failed) :
                   LET buf == SubSeq(bytes, 1, n)
                       offsets == FindMatches(patternMatcher, buf, opts.IgnoreCase)
                   IN  /\ lastRead' = [base |-> baseAddr, length |-> readLength, n |-> n,
                                       failed |-> failed, bytes |-> bytes]
                       /\ allFull' = (allFull /\ ~failed /\ n = readLength)
                       /\ IF failed \/ n = 0
                          THEN /\ pc' = "returned"
                               /\ result' = "read failed"
                               /\ UNCHANGED <<address, mbi, buffer, matches>>
                          ELSE IF offsets = <<>>
                          THEN LeaveRegion /\ UNCHANGED result
                          ELSE /\ buffer' = buf
                               /\ matches' = offsets
                               /\ pc' = "dispatch"
                               /\ UNCHANGED <<address, mbi, result>>
    /\ UNCHANGED <<processHandle, closeCalls, ctxDone, opts, patternMatcher, baseAddr,
                   regionSize, delivered, nQuery, stop, queryFailed, cancelAt, walk, pvars>>

\* scanRegion reads the region: ReadProcessMemory fails, or transfers the first
\* n of the readLength bytes asked for, and FindMatches runs over those
ReadRegion ==
    /\ pc = "region"
    /\ isReadableRegion(mbi)
    /\ LET readEnd == ReadEnd(baseAddr, regionSize, opts.MaxAddress)
           readLength == readEnd - baseAddr
       IN  /\ readEnd > baseAddr
           /\ \E outcome \in {<<TRUE, 0>>} \cup {<<FALSE, k>> : k \in 0..readLength} :
               LET failed == outcome[1]
                   n == outcome[2]
               IN  \E bytes \in RegionBytes(regionSize, readLength, n, failed) :
                   LET buf == TrimBuffer(bytes, n, readLength)
                       offsets == FindMatches(patternMatcher, buf, opts.IgnoreCase)
                   IN  /\ lastRead' = [base |-> baseAddr, length |-> readLength, n |-> n,
                                       failed |-> failed, bytes |-> bytes]
                       /\ allFull' = (allFull /\ ~failed /\ n = readLength)
                       /\ IF failed \/ n = 0 \/ offsets = <<>>
                          THEN LeaveRegion
                          ELSE /\ buffer' = buf
                               /\ matches' = offsets
                               /\ pc' = "dispatch"
                               /\ UNCHANGED <<address, mbi>>
    /\ UNCHANGED <<processHandle, closeCalls, ctxDone, opts, patternMatcher, baseAddr,
                   regionSize, result, delivered, nQuery, stop, queryFailed, cancelAt, walk, pvars>>

\* A scanRegion without the per-match checkpoint
DispatchCheckNoCheckpoint ==
    /\ pc = "dispatch"
    /\ pc' = "handler"
    /\ UNCHANGED <<processHandle, closeCalls, ctxDone, opts, patternMatcher, address, mbi,
                   baseAddr, regionSize, buffer, matches, result, delivered, lastRead,
                   allFull, nQuery, stop, queryFailed, cancelAt, walk, pvars>>

\* A per-match checkpoint that ends the scan without an error
DispatchCheckReturnsNil ==
    /\ pc = "dispatch"
    /\ IF ctxDone
       THEN pc' = "returned" /\ result' = "nil"
       ELSE pc' = "handler" /\ UNCHANGED result
    /\ UNCHANGED <<processHandle, closeCalls, ctxDone, opts, patternMatcher, address, mbi,
                   baseAddr, regionSize, buffer, matches, delivered, lastRead, allFull,
                   nQuery, stop, queryFailed, cancelAt, walk, pvars>>

\* The checkpoint before each handler call
DispatchCheck ==
    /\ pc = "dispatch"
    /\ IF ctxDone
       THEN pc' = "returned" /\ result' = "context canceled"
       ELSE pc' = "handler" /\ UNCHANGED result
    /\ UNCHANGED <<processHandle, closeCalls, ctxDone, opts, patternMatcher, address, mbi,
                   baseAddr, regionSize, buffer, matches, delivered, lastRead, allFull,
                   nQuery, stop, queryFailed, cancelAt, walk, pvars>>

\* What follows a handler call that returned keep: the next offset, or the end
\* of scanRegion, which returns nil either way, so that Scan moves to the next
\* region
AfterHandler(keep) ==
    IF keep /\ Tail(matches) # <<>>
    THEN /\ matches' = Tail(matches)
         /\ pc' = "dispatch"
         /\ UNCHANGED <<address, mbi, buffer, result>>
    ELSE /\ LeaveRegion
         /\ UNCHANGED result

\* The body of scanRegion's loop for the next offset: the Match is built and the
\* handler called, which answers keep (true) or stop (false)
InvokeHandler ==
    /\ pc = "handler"
    /\ LET offset == Head(matches)
       IN  IF offset + GetPatternLength(patternMatcher) > Len(buffer)
           THEN /\ UNCHANGED <<delivered, stop>>
                /\ AfterHandler(TRUE)
           ELSE /\ delivered' = Append(delivered,
                                       MakeMatch(baseAddr, offset, buffer, patternMatcher))
                /\ \E keep \in BOOLEAN :
                    /\ stop' = IF ~keep /\ stop.k = 0
                               THEN [k |-> Len(delivered) + 1, nQuery |-> nQuery]
                               ELSE stop
                    /\ AfterHandler(keep)
    /\ UNCHANGED <<processHandle, closeCalls, ctxDone, opts, patternMatcher, baseAddr,
                   regionSize, lastRead, allFull, nQuery, queryFailed, cancelAt, walk, pvars>>

Next ==
    \/ NewScanner
    \/ Close
    \/ Cancel
    \/ ScanEnter
    \/ LoopCheck
    \/ QueryRegion
    \/ SkipRegion
    \/ ReadRegion
    \/ DispatchCheck
    \/ InvokeHandler

Spec == InitScan /\ [][Next]_vars

\* scanProcess defers scanner.Close(): once Scan has returned, Close runs
SpecDeferClose == Spec /\ WF_vars(Close)

----------------------------------------------------------------------------
(* The inputs of the pattern pipeline *)

\* Bytes of search strings: NUL, space, '?', 'A', 'a', and a byte above 0x7F
StrBytes == {0, 32, 63, 65, 97, 233}

\* Search strings: short ones over StrBytes, and every one-byte string
SearchStrings == SeqsUpTo(StrBytes, MaxStrLen) \cup {<<b>> : b \in Byte}

MinLengths == (-1)..MaxMinLength

\* Characters of hand-written pattern text: space, '?', '4', '6', '1', 'G'
TextChars == {32, 63, 52, 54, 49, 71}

\* Further hand-written pattern text: "57 65 43 68 61 74" (of the tests),
\* lower-case digits "6a", a tab between tokens, a new line at the end, "00 00"
SamplePatterns ==
    { <<53, 55, 32, 54, 53, 32, 52, 51, 32, 54, 56, 32, 54, 49, 32, 55, 52>>,
      <<54, 97>>,
      <<52, 49, 9, 52, 49>>,
      <<52, 49, 10>>,
      <<48, 48, 32, 48, 48>> }

\* One literal token for every byte
ByteTokens == {FormatHex02X(b) : b \in Byte}

PatternTexts == SeqsUpTo(TextChars, MaxTextLen) \cup SamplePatterns \cup ByteTokens

\* Bytes of buffers: 'A' and 'a'
DataBytes == {65, 97}

\* "Hello WeChat World" and "Hello wechat world" (of the tests)
HelloWeChatWorld ==
    <<72, 101, 108, 108, 111, 32, 87, 101, 67, 104, 97, 116, 32, 87, 111, 114, 108, 100>>
HelloWechatWorldLower ==
    <<72, 101, 108, 108, 111, 32, 119, 101, 99, 104, 97, 116, 32, 119, 111, 114, 108, 100>>

\* The buffers a pattern is matched against: short ones over DataBytes, the two
\* of the tests, the search string itself, and for a one-token pattern every
\* one-byte buffer
Buffers ==
    SeqsUpTo(DataBytes, MaxDataLen)
    \cup {HelloWeChatWorld, HelloWechatWorldLower}
    \cup (IF origin = "string" THEN {searchStr} ELSE {})
    \cup (IF pattern \in ByteTokens THEN {<<b>> : b \in Byte} ELSE {})

----------------------------------------------------------------------------
(* The pattern pipeline *)

InitPattern ==
    /\ pstage = "start"
    /\ origin = "none"
    /\ searchStr = <<>>
    /\ minLength = 0
    /\ pattern = <<>>
    /\ pm = NoMatcher("none")
    /\ data = <<>>
    /\ ignoreCase = FALSE
    /\ found = <<>>
    /\ ScanIdle

\* pattern := StringToPattern(searchStr, minLength)
CallStringToPattern ==
    /\ pstage = "start"
    /\ \E s \in SearchStrings, n \in MinLengths :
        /\ searchStr' = s
        /\ minLength' = n
        /\ pattern' = StringToPattern(s, n)
    /\ origin' = "string"
    /\ pstage' = "compiled"
    /\ UNCHANGED <<pm, data, ignoreCase, found>>
    /\ UNCHANGED svars

\* The caller writes the AOB pattern text itself
WritePattern ==
    /\ pstage = "start"
    /\ \E p \in PatternTexts : pattern' = p
    /\ origin' = "text"
    /\ pstage' = "compiled"
    /\ UNCHANGED <<searchStr, minLength, pm, data, ignoreCase, found>>
    /\ UNCHANGED svars

\* var pm PatternMatcher: the zero value of the exported type, no pattern at all
ZeroMatcher ==
    [err |-> "nil", patternBytes |-> <<>>, wildcardMask |-> <<>>, patternLength |-> 0]

DeclareZeroMatcher ==
    /\ pstage = "start"
    /\ pm' = ZeroMatcher
    /\ origin' = "zero"
    /\ pstage' = "parsed"
    /\ UNCHANGED <<searchStr, minLength, pattern, data, ignoreCase, found>>
    /\ UNCHANGED svars

\* pm, err := NewPatternMatcher(pattern)
CallNewPatternMatcher ==
    /\ pstage = "compiled"
    /\ pm' = NewPatternMatcher(pattern)
    /\ pstage' = "parsed"
    /\ UNCHANGED <<origin, searchStr, minLength, pattern, data, ignoreCase, found>>
    /\ UNCHANGED svars

\* found := pm.FindMatches(data, ignoreCase), on a matcher that was built
CallFindMatches ==
    /\ pstage = "parsed"
    /\ pm.err = "nil"
    /\ \E d \in Buffers, ic \in BOOLEAN :
        /\ data' = d
        /\ ignoreCase' = ic
        /\ found' = FindMatches(pm, d, ic)
    /\ pstage' = "matched"
    /\ UNCHANGED <<origin, searchStr, minLength, pattern, pm>>
    /\ UNCHANGED svars

NextPattern ==
    \/ CallStringToPattern
    \/ WritePattern
    \/ DeclareZeroMatcher
    \/ CallNewPatternMatcher
    \/ CallFindMatches

SpecPattern == InitPattern /\ [][NextPattern]_vars

----------------------------------------------------------------------------
(* Properties of the pattern pipeline *)

\* The digit value of an upper-case hexadecimal digit, -1 for any other byte
UpperHexValue(c) ==
    IF c \in 48..57 THEN c - 48 ELSE IF c \in 65..70 THEN c - 55 ELSE -1

IsHexDigit(c) == c \in (48..57) \cup (65..70) \cup (97..102)

Max(a, b) == IF a > b THEN a ELSE b

\* p and d are the upper- and lower-case forms of one ASCII letter
CasePair(p, d) == \E u \in 65..90 : (p = u /\ d = u + 32) \/ (p = u + 32 /\ d = u)

\* The comparison of a literal pattern byte with a data byte, as specified
ByteMatches(p, d, ic) == p = d \/ (ic /\ CasePair(p, d))

\* The pattern of pm occurs in data at the 0-based offset i
OccursAt(i) ==
    /\ i + pm.patternLength <= Len(data)
    /\ \A j \in 1..pm.patternLength :
          pm.wildcardMask[j] \/ ByteMatches(pm.patternBytes[j], data[i + j], ignoreCase)

\* C4: FindMatches returns exactly the offsets at which the pattern occurs, each
\* once and in increasing order, overlapping occurrences included, and nothing
\* when the pattern is empty or longer than the buffer.
C4_FindMatchesExact ==
    pstage = "matched" =>
        /\ \A k \in 1..Len(found) : found[k] \in 0..(Len(data) - pm.patternLength)
        /\ \A k \in 1..(Len(found) - 1) : found[k] < found[k + 1]
        /\ IF pm.patternLength = 0 \/ pm.patternLength > Len(data)
           THEN found = <<>>
           ELSE \A i \in 0..Len(data) :
                    (\E k \in 1..Len(found) : found[k] = i) <=> OccursAt(i)

\* Pattern 41 41 on "AAA" gives the overlapping offsets 0 and 1
C4_Witness ==
    /\ pstage = "matched"
    /\ pattern = <<52, 49, 32, 52, 49>>
    /\ data = <<65, 65, 65>>
    /\ found = <<0, 1>>

\* C5: for a non-empty search string, StringToPattern writes
\* max(len(s), minLength) tokens separated by single spaces: ?? for a '?' of the
\* input and for every padding position, otherwise the two upper-case
\* hexadecimal digits of the input byte; a smaller minLength truncates nothing.
C5_StringToPatternTokens ==
    (origin = "string" /\ searchStr # <<>>) =>
        LET n == Max(Len(searchStr), minLength)
        IN  /\ Len(pattern) = 3 * n - 1
            /\ \A i \in 0..(n - 1) :
                  LET c1 == pattern[3 * i + 1]
                      c2 == pattern[3 * i + 2]
                  IN  /\ i < n - 1 => pattern[3 * i + 3] = 32
                      /\ IF i >= Len(searchStr) \/ searchStr[i + 1] = 63
                         THEN c1 = 63 /\ c2 = 63
                         ELSE /\ UpperHexValue(c1) >= 0
                              /\ UpperHexValue(c2) >= 0
                              /\ 16 * UpperHexValue(c1) + UpperHexValue(c2) = searchStr[i + 1]

\* "A?" with minLength 1 keeps both tokens: "41 ??"
C5_Witness ==
    /\ origin = "string"
    /\ searchStr = <<65, 63>>
    /\ minLength = 1
    /\ pattern = <<52, 49, 32, 63, 63>>

\* C6: the empty search string gives the empty pattern whatever minLength is,
\* and NewPatternMatcher rejects that pattern.
C6_EmptyInputEmptyPattern ==
    (origin = "string" /\ searchStr = <<>>) =>
        /\ pattern = <<>>
        /\ pstage = "parsed" => pm.err # "nil"
        /\ pstage # "matched"

C6_Witness ==
    /\ origin = "string"
    /\ searchStr = <<>>
    /\ minLength = MaxMinLength
    /\ pstage = "parsed"
    /\ pm.err = "empty pattern"

\* A token NewPatternMatcher must accept: ?? or two hexadecimal digits
ValidToken(t) == t = <<63, 63>> \/ (Len(t) = 2 /\ IsHexDigit(t[1]) /\ IsHexDigit(t[2]))

\* C7: NewPatternMatcher fails exactly when there is no token or some token is
\* neither ?? nor one hex-encoded byte; otherwise the pattern length is the
\* number of tokens and the wildcards are exactly the ?? tokens.
C7_NewPatternMatcherErrors ==
    (pstage = "parsed" /\ origin \in {"string", "text"}) =>
        LET toks == Fields(pattern)
            bad == Len(toks) = 0 \/ \E i \in 1..Len(toks) : ~ValidToken(toks[i])
        IN  /\ pm.err # "nil" <=> bad
            /\ pm.err = "nil" =>
                  /\ pm.patternLength = Len(toks)
                  /\ Len(pm.wildcardMask) = Len(toks)
                  /\ Len(pm.patternBytes) = Len(toks)
                  /\ \A i \in 1..Len(toks) : pm.wildcardMask[i] <=> toks[i] = <<63, 63>>

\* The token "4141" decodes to two bytes and is refused
C7_Witness ==
    /\ pstage = "parsed"
    /\ pattern = <<52, 49, 52, 49>>
    /\ pm.err = "invalid hex pattern"

\* s is ASCII and holds no '?'
AsciiNoWildcard(s) == \A i \in 1..Len(s) : s[i] < 128 /\ s[i] # 63

\* C8 as stated: for any ASCII string without '?', the pattern compiled from it
\* with minLength = len(s) is a matcher that finds s exactly once, at offset 0,
\* in a buffer equal to s.
C8_SelfMatch_AsStated ==
    (origin = "string" /\ AsciiNoWildcard(searchStr) /\ minLength = Len(searchStr)) =>
        /\ pstage = "parsed" => pm.err = "nil"
        /\ (pstage = "matched" /\ data = searchStr /\ ~ignoreCase) => found = <<0>>

\* C8, amended: the same for any non-empty ASCII string without '?'.
C8_SelfMatch ==
    (/\ origin = "string"
     /\ searchStr # <<>>
     /\ AsciiNoWildcard(searchStr)
     /\ minLength = Len(searchStr)) =>
        /\ pstage = "parsed" => pm.err = "nil"
        /\ (pstage = "matched" /\ data = searchStr /\ ~ignoreCase) => found = <<0>>

C8_Witness ==
    /\ pstage = "matched"
    /\ origin = "string"
    /\ searchStr = <<65, 97>>
    /\ minLength = 2
    /\ data = <<65, 97>>
    /\ ~ignoreCase
    /\ found = <<0>>

\* C9: a literal pattern byte p matches a data byte d iff p = d, or ignoreCase
\* is set and p, d are the two cases of one ASCII letter; bytes that are not
\* ASCII letters are compared exactly.
C9_CaseFoldAsciiLettersOnly ==
    (/\ pstage = "matched"
     /\ pm.patternLength = 1
     /\ Len(data) = 1
     /\ ~pm.wildcardMask[1]) =>
        LET p == pm.patternBytes[1]
            d == data[1]
            letter(b) == b \in (65..90) \cup (97..122)
        IN  /\ found = <<0>> <=> (p = d \/ (ignoreCase /\ CasePair(p, d)))
            /\ found = <<>> <=> ~(p = d \/ (ignoreCase /\ CasePair(p, d)))
            /\ (~letter(p) \/ ~letter(d)) => (found = <<0>> <=> p = d)
            /\ ~ignoreCase => (found = <<0>> <=> p = d)

\* '@' (0x40) against '`' (0x60) with ignoreCase: they differ only in bit 0x20
\* and do not match
C9_Witness ==
    /\ pstage = "matched"
    /\ ignoreCase
    /\ pm.patternLength = 1
    /\ pm.patternBytes = <<64>>
    /\ data = <<96>>
    /\ found = <<>>

----------------------------------------------------------------------------
(* Scanner.Scan: stop, cancellation, address bounds, invalid patterns *)

\* C1: once the handler has answered stop on its k-th call, the handler has
\* been called exactly k times and no further region is queried or read: the
\* scan is over, and what it returns is nil.
C1_StopEndsScan ==
    stop.k > 0 =>
        /\ Len(delivered) = stop.k
        /\ nQuery = stop.nQuery
        /\ pc \in {"loop", "returned"}
        /\ (pc = "returned" /\ ~ctxDone) => result = "nil"

\* C2 as stated: a scan returns no error but for an invalid pattern, so a scan
\* that observes the cancellation returns nil.
C2_CancelReturnsNil ==
    pc = "returned" => result \in {"nil", "invalid pattern"}

\* The cancellation is observed: a checkpoint is passed with the context done
CancelObserved ==
    /\ ctxDone
    /\ \/ pc = "dispatch"
       \/ pc = "loop" /\ address < opts.MaxAddress

\* C2: a scan that observes the cancellation at the per-region or the per-match
\* checkpoint returns the context's error and delivers nothing in or after that
\* step; a scan returns an error only for an invalid pattern or an observed
\* cancellation.
C2_CancelReturnsCtxErr ==
    [][ /\ (CancelObserved /\ pc' # pc) =>
              /\ pc' = "returned"
              /\ result' = "context canceled"
              /\ delivered' = delivered
        /\ (result' = "context canceled" /\ result # "context canceled") => CancelObserved
        /\ pc = "returned" => (delivered' = delivered /\ result' = result)
        /\ pc' = "returned" =>
              result' \in {"nil", "invalid pattern", "context canceled"} ]_vars

\* A scan cancelled after it delivered a match has returned the context's error
C2_Witness ==
    /\ pc = "returned"
    /\ result = "context canceled"
    /\ ctxDone
    /\ delivered # <<>>

\* C3: in a scan that ran to its natural end, every occurrence of the pattern
\* in the region read last whose bytes lie in [MinAddress, MaxAddress], both
\* bounds included, was delivered.
C3_InclusiveBounds ==
    (/\ pc = "returned"
     /\ result = "nil"
     /\ ~ctxDone
     /\ stop.k = 0
     /\ ~queryFailed
     /\ allFull) =>
        LET plen == GetPatternLength(patternMatcher)
        IN  \A i \in 0..(Len(lastRead.bytes) - plen) :
                (/\ matchesAt(patternMatcher, lastRead.bytes, i, opts.IgnoreCase)
                 /\ lastRead.base + i >= opts.MinAddress
                 /\ lastRead.base + i + plen - 1 <= opts.MaxAddress) =>
                    \E k \in 1..Len(delivered) :
                        delivered[k].Address = lastRead.base + i

\* The pattern text is one NewPatternMatcher must accept
ValidPatternText(p) ==
    /\ Fields(p) # <<>>
    /\ \A i \in 1..Len(Fields(p)) : ValidToken(Fields(p)[i])

\* C10: a Scan given an invalid pattern has returned the configuration error
\* with no region queried, no memory read and no handler call, whatever the
\* state of the context.
C10_InvalidPatternBeforeProcess ==
    (pc \notin {"new", "nohandle", "ready"} /\ ~ValidPatternText(opts.Pattern)) =>
        /\ pc = "returned"
        /\ result = "invalid pattern"
        /\ nQuery = 0
        /\ ~queryFailed
        /\ lastRead = NoRead
        /\ allFull
        /\ delivered = <<>>
        /\ stop.k = 0

\* The malformed pattern "4G" with a context that is already cancelled
C10_Witness ==
    /\ pc = "returned"
    /\ opts.Pattern = <<52, 71>>
    /\ ctxDone
    /\ result = "invalid pattern"

----------------------------------------------------------------------------
(* The process handle *)

\* C11: the handle is acquired by NewScanner only, CloseHandle is called at
\* most once and only on an open handle, a failed NewScanner holds no handle,
\* and after Scan has returned, on whatever path, the deferred Close releases
\* the handle.
C11_HandleReleasedOnce ==
    /\ [](/\ closeCalls \in {0, 1}
          /\ pc \in {"new", "nohandle"} => (processHandle = 0 /\ closeCalls = 0)
          /\ processHandle # 0 => closeCalls = 0
          /\ closeCalls = 1 => processHandle = 0)
    /\ [][ /\ (processHandle' # processHandle /\ processHandle' # 0) => pc = "new"
           /\ closeCalls' # closeCalls =>
                 /\ processHandle # 0
                 /\ processHandle' = 0
                 /\ closeCalls' = closeCalls + 1
                 /\ pc \in {"ready", "returned"}
                 /\ pc' = pc ]_vars
    /\ (pc = "returned") ~> (processHandle = 0 /\ closeCalls = 1)

\* A scan ended by cancellation, its handle released by the one CloseHandle
C11_Witness ==
    /\ pc = "returned"
    /\ result = "context canceled"
    /\ delivered # <<>>
    /\ processHandle = 0
    /\ closeCalls = 1

----------------------------------------------------------------------------
(* Matches *)

\* C12: a Match is delivered only by the handler call; its Address is the base
\* of the region being scanned plus the offset FindMatches gave, its Data are
\* the patternLength bytes of the read buffer at that offset, and the Matches
\* delivered before stay as they were, in this and every later step.
C12_MatchAddressAndData ==
    [][ delivered' # delivered =>
          /\ pc = "handler"
          /\ Len(delivered') = Len(delivered) + 1
          /\ SubSeq(delivered', 1, Len(delivered)) = delivered
          /\ LET m == delivered'[Len(delivered')]
                 off == Head(matches)
             IN  /\ m.Address = baseAddr + off
                 /\ Len(m.Data) = Len(Fields(opts.Pattern))
                 /\ \A j \in 1..Len(m.Data) : m.Data[j] = buffer[off + j]
                 /\ lastRead.base = baseAddr
                 /\ buffer = SubSeq(lastRead.bytes, 1, lastRead.n) ]_vars

\* Pattern "41 ??": a Match at offset 0 of the region at 0 and, after the
\* buffer of that region is gone, a Match at offset 0 of the region at
\* PageSize
C12_Witness ==
    /\ Len(delivered) = 2
    /\ delivered[1] = [Address |-> 0, Data |-> <<65, 97>>]
    /\ delivered[2] = [Address |-> PageSize, Data |-> <<65, 65>>]
    /\ buffer = <<>>

----------------------------------------------------------------------------
(* Checkpoints *)

\* Nothing of the target is touched and nothing delivered in this step
NoProcessStep ==
    /\ nQuery' = nQuery
    /\ lastRead' = lastRead
    /\ delivered' = delivered

\* C13: every query follows a per-region checkpoint that found the context
\* live, every handler call a per-match checkpoint that found it live; a
\* checkpoint reached with the context done returns from Scan, and a returned
\* Scan queries, reads and delivers nothing; a Scan entered with the context
\* done never queries a region or delivers a Match.
C13_Checkpoints ==
    /\ [][ /\ nQuery' # nQuery => pc = "query"
           /\ (pc' = "query" /\ pc # "query") => (pc = "loop" /\ ~ctxDone)
           /\ delivered' # delivered => pc = "handler"
           /\ (pc' = "handler" /\ pc # "handler") => (pc = "dispatch" /\ ~ctxDone)
           /\ lastRead' # lastRead => pc \in {"query", "region"}
           /\ (pc \in {"loop", "dispatch"} /\ ctxDone /\ pc' # pc) =>
                 (pc' = "returned" /\ NoProcessStep)
           /\ pc = "returned" => (pc' = "returned" /\ NoProcessStep)
           /\ (pc = "ready" /\ pc' # "ready" /\ ctxDone') =>
                 (pc' \in {"loop", "returned"} /\ NoProcessStep) ]_vars
    /\ []((ctxDone /\ nQuery = 0 /\ delivered = <<>> /\ pc \in {"loop", "returned"})
            => [](nQuery = 0 /\ delivered = <<>> /\ lastRead = NoRead))

\* The per-match checkpoint ended the scan after one Match, with offsets of
\* the region still waiting
C13_Witness ==
    /\ pc = "returned"
    /\ result = "context canceled"
    /\ Len(delivered) = 1
    /\ Len(matches) >= 1
    /\ Head(matches) > 0

----------------------------------------------------------------------------
(* Regions read and skipped *)

\* ReadProcessMemory is called in this step
ReadIssued == pc = "region" /\ lastRead' # lastRead

\* C14: ReadProcessMemory is called only for a region whose state is committed
\* and whose protection is exactly one of read-only, read-write, execute-read
\* and execute-read-write, with no guard modifier.
C14_ReadOnlyReadableRegions ==
    [][ ReadIssued =>
          /\ mbi.State = "MEM_COMMIT"
          /\ mbi.Protect \in { {"PAGE_READONLY"}, {"PAGE_READWRITE"},
                               {"PAGE_EXECUTE_READ"}, {"PAGE_EXECUTE_READWRITE"} } ]_vars

\* C15: what is read of a region is its overlap with [MinAddress, MaxAddress]:
\* the read starts at or above MinAddress, ends at or below MaxAddress, is no
\* longer than min(RegionSize, MaxAddress - base), and no Match lies below
\* MinAddress.
C15_ReadWithinBounds ==
    /\ lastRead.length > 0 =>
          /\ lastRead.base >= opts.MinAddress
          /\ lastRead.base + lastRead.length - 1 <= opts.MaxAddress
          /\ lastRead.length <= regionSize
          /\ lastRead.length <= opts.MaxAddress - lastRead.base
    /\ \A k \in 1..Len(delivered) : delivered[k].Address >= opts.MinAddress

\* C16: a read that fails or transfers nothing calls no handler and returns no
\* error: Scan goes on at the end of the region, as it does for a region it
\* skips, with what was delivered before untouched.
C16_BestEffortReads ==
    [][ (ReadIssued /\ (lastRead'.failed \/ lastRead'.n = 0)) =>
          /\ pc' = "loop"
          /\ address' = (baseAddr + regionSize) % AddrMod
          /\ result' = "none"
          /\ delivered' = delivered
          /\ matches' = <<>>
          /\ buffer' = <<>>
          /\ nQuery' = nQuery ]_vars

\* Pattern "41" with ignoreCase, which every byte of the target matches: the
\* read of the region at 0 gave nothing, and the region at PageSize, read in
\* full, has its Match delivered
C16_Witness ==
    /\ opts.Pattern = <<52, 49>>
    /\ opts.IgnoreCase
    /\ opts.MinAddress = 0
    /\ nQuery = 2
    /\ ~allFull
    /\ lastRead.base = PageSize
    /\ ~lastRead.failed
    /\ lastRead.n = lastRead.length
    /\ delivered # <<>>
    /\ \A k \in 1..Len(delivered) : delivered[k].Address >= PageSize

----------------------------------------------------------------------------
(* The walk *)

\* A loop iteration ends in this step: the cursor is set for the next one
IterationEnds == pc \in {"region", "handler"} /\ pc' = "loop"

\* C17: every loop iteration moves the cursor forward by at least one address,
\* whatever descriptor the query wrote.
C17_CursorMovesForward ==
    [][ IterationEnds => address' >= address + 1 ]_vars

\* C18: within one Scan the cursor handed to VirtualQueryEx never decreases,
\* and neither does the base of the region processed.
C18_WalkNonDecreasing ==
    [][ /\ pc # "ready" => address' >= address
        /\ pc = "query" => baseAddr' >= baseAddr ]_vars

\* C19: a VirtualQueryEx that fails ends the walk: Scan returns nil in that
\* step, what was delivered stands, and no region is queried or read after it.
C19_QueryFailureAbsorbed ==
    /\ [][ /\ (pc = "query" /\ queryFailed') =>
                /\ pc' = "returned"
                /\ result' = "nil"
                /\ delivered' = delivered
           /\ queryFailed => (queryFailed' /\ NoProcessStep) ]_vars
    /\ [](queryFailed => (pc = "returned" /\ result = "nil" /\ lastRead = NoRead))

\* The second query fails after the first region gave a Match
C19_Witness ==
    /\ queryFailed
    /\ nQuery = 2
    /\ delivered # <<>>
    /\ result = "nil"

----------------------------------------------------------------------------
(* Partial reads *)

\* C20: FindMatches runs over the n bytes transferred and no more: every
\* offset it gives, and every Match delivered, ends within those n bytes, and
\* the Data of the Match are bytes of the target.
C20_PartialReadTrimmed ==
    /\ [](pc \in {"dispatch", "handler"} =>
            /\ Len(buffer) = lastRead.n
            /\ \A i \in 1..Len(matches) :
                  matches[i] + Len(Fields(opts.Pattern)) <= lastRead.n)
    /\ [][ delivered' # delivered =>
             LET m == delivered'[Len(delivered')]
                 off == m.Address - lastRead.base
             IN  /\ off >= 0
                 /\ off + Len(m.Data) <= lastRead.n
                 /\ m.Data = SubSeq(lastRead.bytes, off + 1, off + Len(m.Data)) ]_vars

\* Pattern "41 ??" and a read that transfers one byte, 'A', of the two asked
\* for: no Match is made of that byte and the tail of the buffer
C20_Witness ==
    /\ opts.Pattern = <<52, 49, 32, 63, 63>>
    /\ pc = "loop"
    /\ nQuery = 1
    /\ ~lastRead.failed
    /\ lastRead.length = 2
    /\ lastRead.n = 1
    /\ lastRead.bytes = <<65>>
    /\ delivered = <<>>

----------------------------------------------------------------------------
(* StringToPattern and NewPatternMatcher together *)

\* C24: for a non-empty search string s and any minLength,
\* NewPatternMatcher(StringToPattern(s, minLength)) succeeds with pattern
\* length max(len(s), minLength), wildcards exactly at the '?' of s and at
\* the padding positions, and the bytes of s as literals elsewhere.
C24_CompilerMatcherAgree ==
    (pstage \in {"parsed", "matched"} /\ origin = "string" /\ searchStr # <<>>) =>
        LET n == Max(Len(searchStr), minLength)
        IN  /\ pm.err = "nil"
            /\ pm.patternLength = n
            /\ Len(pm.wildcardMask) = n
            /\ Len(pm.patternBytes) = n
            /\ \A i \in 1..n :
                  /\ pm.wildcardMask[i] <=> (i > Len(searchStr) \/ searchStr[i] = 63)
                  /\ ~pm.wildcardMask[i] => pm.patternBytes[i] = searchStr[i]

\* The string of the bytes 0xE9 and '?' with minLength 3: literal 0xE9, then
\* two wildcards
C24_Witness ==
    /\ pstage = "parsed"
    /\ origin = "string"
    /\ searchStr = <<233, 63>>
    /\ minLength = 3
    /\ pm.err = "nil"
    /\ pm.wildcardMask = <<FALSE, TRUE, TRUE>>
    /\ pm.patternBytes[1] = 233

----------------------------------------------------------------------------
(* Cancellation from outside *)

\* C21: after ctx.Done() is closed, at whatever point of the running Scan,
\* the scan makes at most one more VirtualQueryEx call (with the read of that
\* region) or calls the handler at most once more, not both; the checkpoint it
\* reaches next returns from Scan.
C21_AtMostOneActionAfterCancel ==
    /\ [](ctxDone =>
            LET queries == nQuery - cancelAt.nQuery
                calls == Len(delivered) - cancelAt.k
            IN  /\ queries \in {0, 1}
                /\ calls \in {0, 1}
                /\ queries + calls <= 1)
    /\ [][ (ctxDone /\ pc \in {"loop", "dispatch"} /\ pc' # pc) => pc' = "returned" ]_vars

\* The context was cancelled between the checkpoint and the query: the region
\* was queried and read, its offsets found, and the scan returned without a
\* handler call
C21_Witness ==
    /\ pc = "returned"
    /\ result = "context canceled"
    /\ cancelAt.nQuery = 0
    /\ nQuery = 1
    /\ matches # <<>>
    /\ delivered = <<>>

----------------------------------------------------------------------------
(* The order of the Matches *)

\* C22: while every descriptor of the Scan covered the address queried and
\* overlapped none before it, the Matches delivered have strictly increasing
\* Addresses, so that no Address is delivered twice.
C22_MatchesInIncreasingOrder ==
    walk.regular =>
        \A i \in 1..Len(delivered) : \A j \in 1..Len(delivered) :
            i < j => delivered[i].Address < delivered[j].Address

----------------------------------------------------------------------------
(* Address arithmetic *)

\* C23: the next cursor is base + size, or base + 1 for size 0, and the read
\* end is base + size clamped to MaxAddress, as sums of integers: neither is
\* reduced modulo the size of the address space, so a readable region that
\* ends at the top of the address space is read up to MaxAddress and the
\* cursor after it is not a low address.
C23_NoWrapAround ==
    [][ /\ IterationEnds =>
              address' = (IF regionSize = 0 THEN baseAddr + 1 ELSE baseAddr + regionSize)
        /\ (pc = "region" /\ pc' # "region" /\ isReadableRegion(mbi)) =>
              LET sum == baseAddr + regionSize
                  readEnd == IF sum > opts.MaxAddress THEN opts.MaxAddress ELSE sum
              IN  readEnd > baseAddr => lastRead'.length = readEnd - baseAddr ]_vars

====
